---- MODULE Spec2Model ----
(***************************************************************************)
(* tetr.js client session layer.                                           *)
(*                                                                         *)
(* The repository holds two revisions of the session layer:                *)
(*   src/src/index.ts      Client / ClientUser / Room / EventEmitter       *)
(*   src/unnamed/part_000  ClientUser (join / leave / setPresence)         *)
(* A run is a run of one of them (variable build).  The WebsocketManager   *)
(* (connect, send, send_packet, messageID, clientId, disconnect) and the   *)
(* inbound dispatcher are not among the source files; they are modelled    *)
(* from spec.md sections 4.1 and 4.3.                                      *)
(***************************************************************************)
EXTENDS Integers, Sequences, FiniteSets, TLC

VARIABLES
  build,      \* which revision the client object is an instance of
  wsPresent,  \* whether the client's ws reference holds a WebsocketManager
  ws,         \* the WebsocketManager: [connected, messageID, sent]
  token,      \* Client.token
  handling,   \* Client.handling
  roomId,     \* Room.id (index.ts: client.room.id, part_000: user.room id)
  events,     \* EventEmitter.events: sequence of [event, func]
  delivered,  \* subscriber invocations made by the last step: [func, arg]
  last        \* the last call and how it ended: [op, arg, pre, n, err]

vars == <<build, wsPresent, ws, token, handling, roomId, events, delivered, last>>

----------------------------------------------------------------------------
(* Bounds of the model                                                     *)

\* longest outbound stream of one connection that the model follows
MaxSent == 3
\* most subscriptions the model registers
MaxSubs == 2
\* most subscriptions made from inside callbacks that the model follows
MaxNested == 2

----------------------------------------------------------------------------
(* Values                                                                  *)

\* the value of an unset optional field (undefined)
Unset == "<undefined>"
\* a subscriber invoked with no argument
NoArg == "<no argument>"
\* room ids a caller may pass; the empty string is a string like any other
Rooms == {"", "A", "B"}
Tokens == {"t1", "t2"}
Msgs == {"hello"}
Modes == {"player"}
Users == {"u1"}
Funcs == {"f", "g"}
\* a callback that, when invoked for an event, subscribes NestedFunc to it
ReentrantFuncs == {"r"}
NestedFunc == "h"
EventNames == {"join", "leave"}
Builds == {"index", "part_000"}

\* the constructor's default for handling
DefaultHandling == [arr |-> "1", das |-> "1", sdf |-> "5", safelock |-> TRUE]

\* JavaScript values that are not strings, as a payload of emit
JsNull == "<null>"
JsFalse == "<false>"
JsZero == "<0>"
JsTrue == "<true>"

\* JavaScript truthiness: undefined, null, false, 0 and "" are falsy
Truthy(v) == v \notin {Unset, JsNull, JsFalse, JsZero, ""}

\* a wire packet {id?, command, data}; id is <<n>> when present, <<>> when absent
Packet(id, command, data) == [id |-> id, command |-> command, data |-> data]

----------------------------------------------------------------------------
(* WebsocketManager (spec.md 4.1)                                          *)

\* the fixed base the message-id counter starts from
MsgIdBase == 1

\* a WebsocketManager as constructed: no socket yet
NewWs == [connected |-> FALSE, messageID |-> MsgIdBase, sent |-> <<>>]

\* connect(): a fresh socket, the message-id counter back at its base
Connect(w) == [connected |-> TRUE, messageID |-> MsgIdBase, sent |-> <<>>]

\* disconnect(): closes the socket; a second call finds it closed
Disconnect(w) == [w EXCEPT !.connected = FALSE]

\* the error send(packet) ends with
SendErr(w) == IF w.connected THEN "ok" ELSE "NotConnectedError"

\* send(packet): writes the packet and, for a packet that carries an id,
\* moves the counter to the next unused id; not connected: throws
Send(w, p) ==
  IF w.connected
  THEN [w EXCEPT !.sent = Append(@, p),
                 !.messageID = IF p.id # <<>> THEN @ + 1 ELSE @]
  ELSE w

\* the model follows a call only while the stream has room for its k packets
Fits(k) == Len(ws.sent) + k <= MaxSent

----------------------------------------------------------------------------
(* The call record                                                         *)

Call(op, arg, err) ==
  [op |-> op, arg |-> arg, pre |-> roomId, n |-> Len(ws.sent), err |-> err]

----------------------------------------------------------------------------
\* index.ts constructs its WebsocketManager in the Client constructor; the
\* Client of part_000 holds an optional ws reference (every use is ws?.),
\* which is either undefined or a manager that has not connected yet
Init ==
  /\ build \in Builds
  /\ wsPresent \in (IF build = "index" THEN {TRUE} ELSE BOOLEAN)
  /\ ws = NewWs
  /\ token = Unset
  /\ handling = DefaultHandling
  /\ roomId = Unset
  /\ events = <<>>
  /\ delivered = <<>>
  /\ last = [op |-> "new", arg |-> "", pre |-> Unset, n |-> 0, err |-> "ok"]

----------------------------------------------------------------------------
(* Client (index.ts)                                                       *)

\* login that connects only the first time, and afterwards keeps the socket
Login_ConnectOnce ==
  \E t \in Tokens :
    /\ wsPresent
    /\ token' = t
    /\ ws' = IF token = Unset THEN Connect(ws) ELSE ws
    /\ last' = Call("login", t, "ok")
    /\ delivered' = <<>>
    /\ UNCHANGED <<build, wsPresent, handling, roomId, events>>

\* Client.login(token)
Login ==
  \E t \in Tokens :
    /\ wsPresent
    /\ token' = t
    /\ ws' = Connect(ws)
    /\ last' = Call("login", t, "ok")
    /\ delivered' = <<>>
    /\ UNCHANGED <<build, wsPresent, handling, roomId, events>>

\* leaveRoom that clears Room.id before it sends
LeaveRoomCall_ClearFirst(w, rid) ==
  IF SendErr(w) = "ok"
  THEN [ws |-> Send(w, Packet(<<w.messageID>>, "leaveroom", "false")),
        roomId |-> Unset, err |-> "ok"]
  ELSE [ws |-> w, roomId |-> Unset, err |-> SendErr(w)]

\* Client.leaveRoom() on manager w with Room.id rid: [ws, roomId, err]
LeaveRoomCall(w, rid) ==
  IF SendErr(w) = "ok"
  THEN [ws |-> Send(w, Packet(<<w.messageID>>, "leaveroom", "false")),
        roomId |-> Unset, err |-> "ok"]
  ELSE [ws |-> w, roomId |-> rid, err |-> SendErr(w)]

\* joinRoom that leaves Room.id for the acknowledgement to set
JoinRoomCall_NoLocalId(w, rid, room) ==
  LET left == IF Truthy(rid) THEN LeaveRoomCall(w, rid)
              ELSE [ws |-> w, roomId |-> rid, err |-> "ok"]
  IN IF left.err # "ok" THEN left
     ELSE IF SendErr(left.ws) = "ok"
     THEN [ws |-> Send(left.ws, Packet(<<left.ws.messageID>>, "joinroom", room)),
           roomId |-> left.roomId, err |-> "ok"]
     ELSE [ws |-> left.ws, roomId |-> left.roomId, err |-> SendErr(left.ws)]

\* joinRoom that reads ws.messageID once and uses it for both packets
JoinRoomCall_SharedId(w, rid, room) ==
  LET id == w.messageID
      left == IF ~Truthy(rid) THEN [ws |-> w, roomId |-> rid, err |-> "ok"]
              ELSE IF SendErr(w) = "ok"
              THEN [ws |-> Send(w, Packet(<<id>>, "leaveroom", "false")),
                    roomId |-> Unset, err |-> "ok"]
              ELSE [ws |-> w, roomId |-> rid, err |-> SendErr(w)]
  IN IF left.err # "ok" THEN left
     ELSE IF SendErr(left.ws) = "ok"
     THEN [ws |-> Send(left.ws, Packet(<<id>>, "joinroom", room)),
           roomId |-> room, err |-> "ok"]
     ELSE [ws |-> left.ws, roomId |-> left.roomId, err |-> SendErr(left.ws)]

\* Client.joinRoom(room) on manager w with Room.id rid: [ws, roomId, err]
JoinRoomCall(w, rid, room) ==
  LET left == IF Truthy(rid) THEN LeaveRoomCall(w, rid)
              ELSE [ws |-> w, roomId |-> rid, err |-> "ok"]
  IN IF left.err # "ok" THEN left
     ELSE IF SendErr(left.ws) = "ok"
     THEN [ws |-> Send(left.ws, Packet(<<left.ws.messageID>>, "joinroom", room)),
           roomId |-> room, err |-> "ok"]
     ELSE [ws |-> left.ws, roomId |-> left.roomId, err |-> SendErr(left.ws)]

JoinRoom ==
  \E room \in Rooms :
    /\ build = "index"
    /\ Fits(2)
    /\ LET r == JoinRoomCall(ws, roomId, room)
       IN /\ ws' = r.ws
          /\ roomId' = r.roomId
          /\ last' = Call("joinRoom", room, r.err)
    /\ delivered' = <<>>
    /\ UNCHANGED <<build, wsPresent, handling, token, events>>

LeaveRoom ==
  /\ build = "index"
  /\ Fits(1)
  /\ LET r == LeaveRoomCall(ws, roomId)
     IN /\ ws' = r.ws
        /\ roomId' = r.roomId
        /\ last' = Call("leaveRoom", "", r.err)
  /\ delivered' = <<>>
  /\ UNCHANGED <<build, wsPresent, handling, token, events>>

\* destroy that raises when it finds the socket already closed
Destroy_ThrowsWhenClosed ==
  /\ wsPresent
  /\ ws' = Disconnect(ws)
  /\ last' = Call("destroy", IF ws.connected THEN "open" ELSE "closed",
                  SendErr(ws))
  /\ delivered' = <<>>
  /\ UNCHANGED <<build, wsPresent, handling, token, roomId, events>>

\* Client.destroy()
Destroy ==
  /\ wsPresent
  /\ ws' = Disconnect(ws)
  /\ last' = Call("destroy", IF ws.connected THEN "open" ELSE "closed", "ok")
  /\ delivered' = <<>>
  /\ UNCHANGED <<build, wsPresent, handling, token, roomId, events>>

----------------------------------------------------------------------------
(* ClientUser (index.ts)                                                   *)

\* the packet of ClientUser.message(user, message)
UserMessagePacket(user, message) ==
  Packet(<<>>, "social.dm", [recipient |-> user, msg |-> message])

\* the packet of ClientUser.setPresence(options)
UserSetPresencePacket(options) == Packet(<<>>, "social.presence", options)

\* an invite packet that takes a message id like the room commands
UserInvitePacket_WithId(user) == Packet(<<ws.messageID>>, "social.invite", user)

\* the packet of ClientUser.invite(user)
UserInvitePacket(user) == Packet(<<>>, "social.invite", user)

PresenceOptions == {[status |-> "online", detail |-> "menus"]}

\* ClientUser.message(user, message)
UserMessage ==
  \E user \in Users, message \in Msgs :
    /\ build = "index"
    /\ Fits(1)
    /\ ws' = Send(ws, UserMessagePacket(user, message))
    /\ last' = Call("user.message", message, SendErr(ws))
    /\ delivered' = <<>>
    /\ UNCHANGED <<build, wsPresent, handling, token, roomId, events>>

\* ClientUser.setPresence(options)
UserSetPresence ==
  \E options \in PresenceOptions :
    /\ build = "index"
    /\ Fits(1)
    /\ ws' = Send(ws, UserSetPresencePacket(options))
    /\ last' = Call("user.setPresence", options.status, SendErr(ws))
    /\ delivered' = <<>>
    /\ UNCHANGED <<build, wsPresent, handling, token, roomId, events>>

\* ClientUser.invite(user)
UserInvite ==
  \E user \in Users :
    /\ build = "index"
    /\ Fits(1)
    /\ ws' = Send(ws, UserInvitePacket(user))
    /\ last' = Call("user.invite", user, SendErr(ws))
    /\ delivered' = <<>>
    /\ UNCHANGED <<build, wsPresent, handling, token, roomId, events>>

----------------------------------------------------------------------------
(* Room (index.ts)                                                         *)

\* the packet of Room.message(msg) on manager w
RoomMessagePacket(w, msg) == Packet(<<w.messageID>>, "chat", msg)

\* the packet of Room.selfMode(mode) on manager w
RoomSelfModePacket(w, mode) == Packet(<<w.messageID>>, "switchbracket", mode)

\* the packet of Room.setMode(user, mode) on manager w
RoomSetModePacket(w, user, mode) ==
  Packet(<<w.messageID>>, "switchbrackethost", [uid |-> user, bracket |-> mode])

\* the packet of Room.setConfig(options) on manager w
RoomSetConfigPacket(w, options) == Packet(<<w.messageID>>, "updateconfig", options)

ConfigOptions == {<<[index |-> "meta.name", value |-> "room"]>>}

\* Room.message(msg): sends whatever Room.id is
RoomMessage ==
  \E msg \in Msgs :
    /\ build = "index"
    /\ Fits(1)
    /\ ws' = Send(ws, RoomMessagePacket(ws, msg))
    /\ last' = Call("room.message", msg, SendErr(ws))
    /\ delivered' = <<>>
    /\ UNCHANGED <<build, wsPresent, handling, token, roomId, events>>

\* Room.selfMode(mode)
RoomSelfMode ==
  \E mode \in Modes :
    /\ build = "index"
    /\ Fits(1)
    /\ ws' = Send(ws, RoomSelfModePacket(ws, mode))
    /\ last' = Call("room.selfMode", mode, SendErr(ws))
    /\ delivered' = <<>>
    /\ UNCHANGED <<build, wsPresent, handling, token, roomId, events>>

\* Room.setMode(user, mode)
RoomSetMode ==
  \E user \in Users, mode \in Modes :
    /\ build = "index"
    /\ Fits(1)
    /\ ws' = Send(ws, RoomSetModePacket(ws, user, mode))
    /\ last' = Call("room.setMode", mode, SendErr(ws))
    /\ delivered' = <<>>
    /\ UNCHANGED <<build, wsPresent, handling, token, roomId, events>>

\* Room.setConfig(options)
RoomSetConfig ==
  \E options \in ConfigOptions :
    /\ build = "index"
    /\ Fits(1)
    /\ ws' = Send(ws, RoomSetConfigPacket(ws, options))
    /\ last' = Call("room.setConfig", "", SendErr(ws))
    /\ delivered' = <<>>
    /\ UNCHANGED <<build, wsPresent, handling, token, roomId, events>>

----------------------------------------------------------------------------
(* ClientUser (part_000): every send is this.client.ws?.send_packet(...),  *)
(* which does nothing at all when the ws reference is undefined            *)

\* the packet of ClientUser.join(room) on manager w
JoinPacket(w, room) == Packet(<<w.messageID>>, "joinroom", room)

\* the packet of ClientUser.leave() on manager w
LeavePacket(w) == Packet(<<w.messageID>>, "leaveroom", "false")

\* the packet of ClientUser.setPresence(data)
SetPresencePacket(data) == Packet(<<>>, "social.presence", data)

\* this.client.ws?.send_packet(p): [ws, err]
OptionalSend(present, w, p) ==
  IF present THEN [ws |-> Send(w, p), err |-> SendErr(w)]
  ELSE [ws |-> w, err |-> "ok"]

\* ClientUser.join(room)
Join ==
  \E room \in Rooms :
    /\ build = "part_000"
    /\ Fits(1)
    /\ LET r == OptionalSend(wsPresent, ws, JoinPacket(ws, room))
       IN /\ ws' = r.ws
          /\ last' = Call("join", room, r.err)
    /\ delivered' = <<>>
    /\ UNCHANGED <<build, wsPresent, handling, token, roomId, events>>

\* ClientUser.leave()
Leave ==
  /\ build = "part_000"
  /\ Fits(1)
  /\ LET r == OptionalSend(wsPresent, ws, LeavePacket(ws))
     IN /\ ws' = r.ws
        /\ last' = Call("leave", "", r.err)
  /\ delivered' = <<>>
  /\ UNCHANGED <<build, wsPresent, handling, token, roomId, events>>

\* ClientUser.setPresence(data)
SetPresence ==
  \E data \in PresenceOptions :
    /\ build = "part_000"
    /\ Fits(1)
    /\ LET r == OptionalSend(wsPresent, ws, SetPresencePacket(data))
       IN /\ ws' = r.ws
          /\ last' = Call("setPresence", data.status, r.err)
    /\ delivered' = <<>>
    /\ UNCHANGED <<build, wsPresent, handling, token, roomId, events>>

----------------------------------------------------------------------------
(* EventEmitter (index.ts)                                                 *)

\* payloads a caller may pass to emit; Unset is an omitted argument
Payloads == {Unset, "", "hello"}

\* filter that keeps every subscription, whatever its event
Filter_All(evs, event) == evs

\* this.events.filter((x) => x.event == event)
Filter(evs, event) == SelectSeq(evs, LAMBDA x : x.event = event)

\* the subscriptions the invoked callbacks make while emit delivers event
Reentrant(deliv, event) ==
  LET rs == SelectSeq(deliv, LAMBDA c : c.func \in ReentrantFuncs)
  IN [i \in 1..Len(rs) |-> [event |-> event, func |-> NestedFunc]]

\* emit that runs the matching subscribers twice over
Emit_Twice(evs, event, args) ==
  LET array == Filter(evs, event) \o Filter(evs, event)
  IN [i \in 1..Len(array) |->
        [func |-> array[i].func,
         arg |-> IF Truthy(args) THEN args ELSE NoArg]]

\* emit that walks this.events itself, and so reaches the subscriptions
\* pushed while it delivers
Emit_Live(evs, event, args) ==
  LET array == Filter(evs, event)
      first == [i \in 1..Len(array) |->
                  [func |-> array[i].func,
                   arg |-> IF Truthy(args) THEN args ELSE NoArg]]
      pushed == Reentrant(first, event)
  IN first \o [i \in 1..Len(pushed) |->
                 [func |-> pushed[i].func,
                  arg |-> IF Truthy(args) THEN args ELSE NoArg]]

\* emit that passes args whenever it is not undefined
Emit_IfDefined(evs, event, args) ==
  LET array == Filter(evs, event)
  IN [i \in 1..Len(array) |->
        [func |-> array[i].func,
         arg |-> IF args # Unset THEN args ELSE NoArg]]

\* EventEmitter.emit(event, args): the invocations it makes, in order, over
\* the array filter() returned when emit started
Emit(evs, event, args) ==
  LET array == Filter(evs, event)
  IN [i \in 1..Len(array) |->
        [func |-> array[i].func,
         arg |-> IF Truthy(args) THEN args ELSE NoArg]]

\* subscriptions made from inside callbacks
Nested(evs) == SelectSeq(evs, LAMBDA x : x.func = NestedFunc)

\* EventEmitter.on(event, func), with the event and callback drawn from the
\* given sets
Subscribe(names, funcs) ==
  \E event \in names, func \in funcs :
    /\ Len(events) - Len(Nested(events)) < MaxSubs
    /\ events' = Append(events, [event |-> event, func |-> func])
    /\ last' = Call("on", event, "ok")
    /\ delivered' = <<>>
    /\ UNCHANGED <<build, wsPresent, handling, ws, token, roomId>>

\* EventEmitter.on(event, func)
On == Subscribe(EventNames, Funcs)

\* EventEmitter.on(event, func) with callbacks that subscribe in turn
OnAny == Subscribe(EventNames, Funcs \cup ReentrantFuncs)

\* a caller's own EventEmitter.emit(event, args), with args drawn from the
\* given set; the callbacks it invokes may push subscriptions
EmitWith(payloads) ==
  \E event \in EventNames, args \in payloads :
    LET d == Emit(events, event, args)
    IN /\ Len(Nested(events)) + Len(Reentrant(d, event)) <= MaxNested
       /\ delivered' = d
       /\ events' = events \o Reentrant(d, event)
       /\ last' = [op |-> "emit", arg |-> event, pre |-> roomId,
                   n |-> Len(ws.sent), err |-> "ok", args |-> args]
       /\ UNCHANGED <<build, wsPresent, handling, ws, token, roomId>>

\* a caller's own EventEmitter.emit(event, args)
EmitCall == EmitWith(Payloads)

\* every kind of value a caller may pass to emit
AllPayloads == {Unset, JsNull, JsFalse, JsZero, "", JsTrue, "hello"}

EmitAny == EmitWith(AllPayloads)

----------------------------------------------------------------------------
(* Dispatcher (spec.md 4.3): inbound packets arrive on a connected socket  *)

IsMembership(p) == p.command \in {"joinroom", "leaveroom"}

\* the room id of the join the outbound stream last asked for, if the last
\* room-membership command written is a joinroom
PendingJoin(sent) ==
  LET m == SelectSeq(sent, IsMembership)
  IN IF m # <<>> /\ m[Len(m)].command = "joinroom"
     THEN <<m[Len(m)].data>> ELSE <<>>

\* joinroom ack for room r: [roomId, delivered]
DispatchJoinRoom(rid, evs, pending, r) ==
  IF pending = <<r>> /\ rid # r
  THEN [roomId |-> r, delivered |-> Emit(evs, "join", Unset)]
  ELSE [roomId |-> rid, delivered |-> <<>>]

\* leaveroom ack: [roomId, delivered]
DispatchLeaveRoom(rid, evs) ==
  IF rid # Unset
  THEN [roomId |-> Unset, delivered |-> Emit(evs, "leave", Unset)]
  ELSE [roomId |-> rid, delivered |-> <<>>]

RecvJoinRoom ==
  \E r \in Rooms :
    /\ wsPresent
    /\ ws.connected
    /\ LET d == DispatchJoinRoom(roomId, events, PendingJoin(ws.sent), r)
       IN /\ roomId' = d.roomId
          /\ delivered' = d.delivered
          /\ events' = events \o Reentrant(d.delivered, "join")
    /\ last' = Call("recv.joinroom", r, "ok")
    /\ UNCHANGED <<build, wsPresent, handling, ws, token>>

RecvLeaveRoom ==
  /\ wsPresent
  /\ ws.connected
  /\ LET d == DispatchLeaveRoom(roomId, events)
     IN /\ roomId' = d.roomId
        /\ delivered' = d.delivered
        /\ events' = events \o Reentrant(d.delivered, "leave")
  /\ last' = Call("recv.leaveroom", "", "ok")
  /\ UNCHANGED <<build, wsPresent, handling, ws, token>>

\* contents of the chat packets the server sends
InboundMsgs == {"hello", ""}

\* the payload of the message event: an object {content, author, ...}
MessagePayload(content) == "{content: " \o content \o "}"

\* chat packet with the given content: the invocations it leads to
DispatchChat(rid, evs, content) ==
  IF rid # Unset THEN Emit(evs, "message", MessagePayload(content)) ELSE <<>>

RecvChat ==
  \E content \in InboundMsgs :
    /\ wsPresent
    /\ ws.connected
    /\ LET d == DispatchChat(roomId, events, content)
       IN /\ delivered' = d
          /\ events' = events \o Reentrant(d, "message")
    /\ last' = Call("recv.chat", content, "ok")
    /\ UNCHANGED <<build, wsPresent, handling, ws, token, roomId>>

\* command names the dispatcher has no handler for
UnknownCommands == {"foo.bar"}

\* an unknown command handled like a leaveroom acknowledgement
DispatchOther_AsLeaveRoom(rid, evs, command) == DispatchLeaveRoom(rid, evs)

\* packet with an unknown command: ignored; [roomId, delivered]
DispatchOther(rid, evs, command) == [roomId |-> rid, delivered |-> <<>>]

RecvOther ==
  \E command \in UnknownCommands :
    /\ wsPresent
    /\ ws.connected
    /\ LET d == DispatchOther(roomId, events, command)
       IN /\ roomId' = d.roomId
          /\ delivered' = d.delivered
          /\ events' = events \o Reentrant(d.delivered, command)
    /\ last' = Call("recv.other", command, "ok")
    /\ UNCHANGED <<build, wsPresent, handling, ws, token>>

----------------------------------------------------------------------------
(* Specifications                                                          *)

\* the caller-facing action surface of both revisions
Next ==
  \/ Login
  \/ JoinRoom
  \/ LeaveRoom
  \/ Destroy
  \/ UserMessage
  \/ UserSetPresence
  \/ UserInvite
  \/ RoomMessage
  \/ RoomSelfMode
  \/ RoomSetMode
  \/ RoomSetConfig
  \/ Join
  \/ Leave
  \/ SetPresence

Spec == Init /\ [][Next]_vars

\* room membership of both revisions with the inbound acknowledgements
NextRoom ==
  \/ Login
  \/ Destroy
  \/ JoinRoom
  \/ LeaveRoom
  \/ Join
  \/ Leave
  \/ RecvJoinRoom
  \/ RecvLeaveRoom

SpecRoom == Init /\ [][NextRoom]_vars

\* the acknowledgements with the event bus
NextBus ==
  \/ Login
  \/ Join
  \/ Leave
  \/ On
  \/ EmitCall
  \/ RecvJoinRoom
  \/ RecvLeaveRoom

SpecBus == Init /\ [][NextBus]_vars

\* the event bus alone, with callbacks that subscribe while being invoked
NextEmit ==
  \/ OnAny
  \/ EmitAny

SpecEmit == Init /\ [][NextEmit]_vars

\* packets with an unknown command arriving at a session with a room, a
\* token and subscribers
NextUnknown ==
  \/ Login
  \/ JoinRoom
  \/ On
  \/ RecvOther

SpecUnknown == Init /\ [][NextUnknown]_vars

\* EventEmitter.on(event, func) for the join and message events
OnRoomEvents == Subscribe({"join", "message"}, {"f"})

\* connect, join, acknowledgement, chat and its echo
NextEndToEnd ==
  \/ Login
  \/ JoinRoom
  \/ RoomMessage
  \/ OnRoomEvents
  \/ RecvJoinRoom
  \/ RecvChat

SpecEndToEnd == Init /\ [][NextEndToEnd]_vars

----------------------------------------------------------------------------
(* Properties                                                              *)

\* the packets the last call appended to the outbound stream
Appended == SubSeq(ws.sent, last.n + 1, Len(ws.sent))

Commands(seq) == [i \in 1..Len(seq) |-> seq[i].command]

JoinOps == {"joinRoom", "join"}
LeaveOps == {"leaveRoom", "leave"}

\* C1: a join(B) made while joined to a room writes leaveroom and then
\* joinroom(B), and nothing else, in both Client.joinRoom and ClientUser.join.
C1_JoinSupersedes ==
  (/\ last.op \in JoinOps
   /\ Truthy(last.pre) /\ Truthy(last.arg) /\ last.arg # last.pre
   /\ wsPresent /\ ws.connected)
    => /\ Commands(Appended) = <<"leaveroom", "joinroom">>
       /\ Appended[2].data = last.arg

C3_NoTwoJoins ==
  build = "index" =>
    \A i, j \in 1..Len(ws.sent) :
      (i < j /\ ws.sent[i].command = "joinroom" /\ ws.sent[j].command = "joinroom")
        => \E k \in (i + 1)..(j - 1) : ws.sent[k].command = "leaveroom"

\* C4: Room.message called while Room.id is unset fails with NotInRoomError
\* and writes nothing.
C4_MessageNeedsRoom ==
  (last.op = "room.message" /\ last.pre = Unset /\ ws.connected)
    => (last.err = "NotInRoomError" /\ Appended = <<>>)

\* C5: within one connection, the ids of the id-bearing packets written
\* strictly increase in the order written.
C5_IdsIncrease ==
  \A i, j \in 1..Len(ws.sent) :
    (i < j /\ ws.sent[i].id # <<>> /\ ws.sent[j].id # <<>>)
      => ws.sent[i].id[1] < ws.sent[j].id[1]

\* one joinRoom call made while in a room has written leaveroom and joinroom
C5_Witness ==
  /\ last.op = "joinRoom" /\ Truthy(last.pre) /\ last.err = "ok"
  /\ Commands(Appended) = <<"leaveroom", "joinroom">>
  /\ Appended[1].id[1] < Appended[2].id[1]

\* the first packet of the stream that carries an id, if there is one
FirstWithId(sent) ==
  LET w == SelectSeq(sent, LAMBDA p : p.id # <<>>)
  IN IF w = <<>> THEN <<>> ELSE w[1].id

\* C6: every login leaves the message-id counter at its base, so the first
\* id-bearing packet written after any login carries the base id.
C6_ConnectResets ==
  /\ last.op = "login" => (ws.connected /\ ws.messageID = MsgIdBase)
  /\ FirstWithId(ws.sent) \in {<<>>, <<MsgIdBase>>}

\* the first packet of a connection made after an earlier connection's
\* joinRoom, carrying the base id
C6_Witness ==
  /\ token # Unset
  /\ last.op = "room.message" /\ last.err = "ok"
  /\ last.n = 0 /\ last.pre # Unset
  /\ FirstWithId(ws.sent) = <<MsgIdBase>>

JoinSubscribers == {i \in DOMAIN events : events[i].event = "join"}

\* C7: a joinroom acknowledgement notifies the join subscribers once each
\* when it changes Room.id, and notifies nobody when Room.id is already the
\* acknowledged room.
C7_JoinAckIdempotent ==
  last.op = "recv.joinroom" =>
    IF roomId # last.pre
    THEN /\ Len(delivered) = Cardinality(JoinSubscribers)
         /\ \A i \in DOMAIN delivered : delivered[i].arg = NoArg
    ELSE delivered = <<>>

\* a second acknowledgement for the room already joined, with a subscriber
C7_Witness ==
  /\ last.op = "recv.joinroom"
  /\ Truthy(last.arg) /\ last.pre = last.arg /\ roomId = last.arg
  /\ PendingJoin(ws.sent) = <<last.arg>>
  /\ JoinSubscribers # {}
  /\ delivered = <<>>

IdCommands ==
  {"joinroom", "leaveroom", "chat", "switchbracket", "switchbrackethost",
   "updateconfig"}
SocialCommands == {"social.presence", "social.dm", "social.invite"}

\* C8: every packet written with a room command carries an id and every
\* packet written with a social command carries none.
C8_IdPresence ==
  \A i \in 1..Len(ws.sent) :
    /\ ws.sent[i].command \in IdCommands => ws.sent[i].id # <<>>
    /\ ws.sent[i].command \in SocialCommands => ws.sent[i].id = <<>>

\* a stream holding a room command and a social command
C8_Witness ==
  /\ \E i \in 1..Len(ws.sent) : ws.sent[i].command \in IdCommands
  /\ \E i \in 1..Len(ws.sent) : ws.sent[i].command \in SocialCommands

\* C9: a non-empty Room.id implies that the socket is connected.
C9_RoomImpliesConnected == Truthy(roomId) => ws.connected

NonBestEffortOps ==
  {"joinRoom", "leaveRoom", "join", "leave", "room.message", "room.selfMode",
   "room.setMode", "room.setConfig", "user.message", "user.invite"}

\* C10: an outbound action called while there is no connected socket ends
\* with NotConnectedError.
C10_NotConnectedFails ==
  (last.op \in NonBestEffortOps /\ ~(wsPresent /\ ws.connected))
    => last.err = "NotConnectedError"

\* C11: a destroy() that follows a destroy() changes nothing of the session
\* (socket, token, handling, Room.id, subscriptions) and raises no error.
C11_DestroyIdempotent ==
  [][(last.op = "destroy" /\ last'.op = "destroy")
       => /\ ws' = ws /\ token' = token /\ handling' = handling
          /\ roomId' = roomId /\ events' = events
          /\ last'.err = "ok"]_vars

\* a destroy() called after login with the socket already closed
C11_Witness ==
  /\ last.op = "destroy" /\ last.arg = "closed" /\ last.err = "ok"
  /\ token # Unset /\ ~ws.connected

\* C12: once a login has set the token, the token never changes again.
C12_TokenImmutable == [][token # Unset => token' = token]_vars

\* the callbacks subscribed to event in evs, in subscription order, one entry
\* per subscription
RECURSIVE Matching(_, _)
Matching(evs, event) ==
  IF evs = <<>> THEN <<>>
  ELSE (IF Head(evs).event = event THEN <<Head(evs).func>> ELSE <<>>)
         \o Matching(Tail(evs), event)

DeliveredFuncs(deliv) == [i \in 1..Len(deliv) |-> deliv[i].func]

\* C13: an emit invokes the callbacks subscribed to that event, in
\* subscription order, once per subscription (a callback subscribed k times
\* runs k times), and no callback subscribed to another event.
C13_EmitInOrder ==
  last.op = "emit" => DeliveredFuncs(delivered) = Matching(events, last.arg)

\* an emit to a callback subscribed twice to the event
C13_Witness ==
  /\ last.op = "emit"
  /\ Len(events) = 2 /\ events[1] = events[2] /\ events[1].event = last.arg
  /\ Len(delivered) = 2

\* C18: an emit invokes exactly the callbacks subscribed when it started, so
\* a callback subscribed during delivery does not run in that emit; the
\* subscriptions it pushed stay, and the registry only grows at its end.
C18_EmitSnapshot ==
  [][/\ Len(events') >= Len(events)
     /\ SubSeq(events', 1, Len(events)) = events
     /\ last'.op = "emit" =>
          /\ DeliveredFuncs(delivered') = Matching(events, last'.arg)
          /\ Len(events') = Len(events)
               + Cardinality({i \in DOMAIN delivered' :
                                delivered'[i].func \in ReentrantFuncs})]_vars

\* a second emit: it ran the callback the first emit's delivery subscribed,
\* and not the one subscribed during its own delivery
C18_Witness ==
  /\ last.op = "emit"
  /\ Len(events) = 3
  /\ events[1] = [event |-> last.arg, func |-> "r"]
  /\ events[2] = [event |-> last.arg, func |-> NestedFunc]
  /\ events[3] = [event |-> last.arg, func |-> NestedFunc]
  /\ DeliveredFuncs(delivered) = <<"r", NestedFunc>>

\* C19: emit passes args to each callback exactly when args is truthy; with
\* args omitted, null, false, 0 or "" each callback is called with no argument.
C19_FalsyNotDelivered ==
  last.op = "emit" =>
    \A i \in DOMAIN delivered :
      delivered[i].arg =
        IF last.args \in {Unset, JsNull, JsFalse, JsZero, ""}
        THEN NoArg ELSE last.args

\* an emit of the payload 0 to a subscriber, which got no argument
C19_Witness ==
  /\ last.op = "emit" /\ last.args = JsZero
  /\ delivered # <<>>
  /\ \A i \in DOMAIN delivered : delivered[i].arg = NoArg

\* C14: an inbound packet with an unknown command leaves Room.id, token,
\* handling and the subscriptions as they were, invokes no subscriber and
\* raises no error.
C14_UnknownIgnored ==
  [][last'.op = "recv.other"
       => /\ roomId' = roomId /\ token' = token /\ handling' = handling
          /\ events' = events
          /\ delivered' = <<>>
          /\ last'.err = "ok"]_vars

\* an unknown command received in a room, logged in, with a subscriber
C14_Witness ==
  /\ last.op = "recv.other" /\ last.arg = "foo.bar"
  /\ Truthy(roomId) /\ token # Unset /\ events # <<>>

\* C16: in the run login, joinRoom(R1), joinroom ack for R1, Room.message,
\* chat echo: the ack leaves Room.id = R1 and runs each join subscriber once,
\* the chat packet carries an id, and the echo runs each message subscriber
\* with the content.
C16_EndToEnd ==
  [][/\ (/\ last.op = "joinRoom" /\ last.err = "ok" /\ last.pre = Unset
         /\ Truthy(last.arg)
         /\ last'.op = "recv.joinroom" /\ last'.arg = last.arg)
          => /\ roomId' = last.arg
             /\ DeliveredFuncs(delivered') = Matching(events, "join")
     /\ (last'.op = "room.message" /\ ws.connected /\ roomId # Unset)
          => /\ Len(ws'.sent) = Len(ws.sent) + 1
             /\ ws'.sent[Len(ws'.sent)].command = "chat"
             /\ ws'.sent[Len(ws'.sent)].id # <<>>
             /\ ws'.sent[Len(ws'.sent)].data = last'.arg
     /\ (last'.op = "recv.chat" /\ roomId # Unset)
          => /\ DeliveredFuncs(delivered') = Matching(events, "message")
             /\ \A i \in DOMAIN delivered' :
                  delivered'[i].arg = MessagePayload(last'.arg)]_vars

FireAndForgetCommand ==
  [op \in {"user.message", "user.invite", "user.setPresence", "setPresence"} |->
     CASE op = "user.message" -> "social.dm"
       [] op = "user.invite" -> "social.invite"
       [] OTHER -> "social.presence"]

\* C15: a message, invite or setPresence call that returns has written
\* exactly one packet, with its social command, and has left Room.id, token
\* and handling as they were.
C15_FireAndForget ==
  [][(last'.op \in DOMAIN FireAndForgetCommand /\ last'.err = "ok")
       => /\ Len(ws'.sent) = Len(ws.sent) + 1
          /\ ws'.sent[Len(ws'.sent)].command = FireAndForgetCommand[last'.op]
          /\ roomId' = roomId /\ token' = token /\ handling' = handling]_vars

====
